---- MODULE Spec2Model ----
(***************************************************************************)
(* Model of src/dashboard.py: one Streamlit script run ("tick") per        *)
(* auto-refresh.  A tick downloads the bars, enriches them, perturbs the   *)
(* last close, renders the sidebar metrics, the news ticker, the three     *)
(* tabs, and turns any exception into one st.error.                        *)
(*                                                                         *)
(* Numbers.  Prices are fixed-point integers in units of 1/UnitsPerOne;    *)
(* derived columns (% Change, MA20, MA50) are exact rationals <<n, d>> in  *)
(* lowest terms, and NaN is the pair <<0, 0>>.  Floating-point rounding is *)
(* not modelled.                                                           *)
(*                                                                         *)
(* pandas.  data["Close"].iloc[-1] = x (lines 68, 69) is modelled as the   *)
(* in-place write the script relies on (pandas without copy-on-write).     *)
(***************************************************************************)
EXTENDS Integers, Sequences, FiniteSets

\* ------------------------------------------------------------------ bounds
MaxBars == 60
MaxNews == 16
BasePrice == 100
MaxTokens == 3

\* ------------------------------------------------------- program constants
MA20Window == 20
MA50Window == 50
TickerItems == 5
NewsTabItems == 10
\* u = k / UnitsPerOne with -JitterMax <= k < JitterMax is uniform(-0.001, 0.001)
UnitsPerOne == 10000
JitterMax == 10

\* --------------------------------------------------------------- rationals
NaN == <<0, 0>>

Abs(x) == IF x < 0 THEN -x ELSE x

RECURSIVE GCD(_, _)
GCD(a, b) == IF b = 0 THEN a ELSE GCD(b, a % b)

\* n / d in lowest terms, d > 0
Rat(n, d) == LET g == GCD(Abs(n), Abs(d)) IN <<n \div g, d \div g>>

IsNaN(r) == r[2] = 0

\* Python float comparison: any comparison with NaN is False
RatGT(a, b) == ~IsNaN(a) /\ ~IsNaN(b) /\ a[1] * b[2] > b[1] * a[2]

RECURSIVE SumRange(_, _, _)
SumRange(s, lo, hi) == IF lo > hi THEN 0 ELSE s[hi] + SumRange(s, lo, hi - 1)

Min(a, b) == IF a < b THEN a ELSE b

\* ------------------------------------------------------------ fetch_data
\* mutant: the change is taken from the first bar, as the jitter step does
PctChangeAt_from_first(close, i) ==
  IF i = 1 THEN NaN ELSE Rat((close[i] - close[1]) * 100, close[1])

\* Series.pct_change() * 100: close[i] / close[i-1] - 1, times 100; NaN at 0
PctChangeAt(close, i) ==
  IF i = 1 THEN NaN
  ELSE LET q == <<close[i], close[i - 1]>>          \* close[i] / close[i-1]
           m == <<q[1] - q[2], q[2]>>               \* ... - 1
       IN Rat(m[1] * 100, m[2])                     \* ... * 100

PctChange(close) == [i \in 1..Len(close) |-> PctChangeAt(close, i)]

\* mutant: the window starts one bar late
RollingAt_short(close, w, i) ==
  IF i < w THEN NaN ELSE Rat(SumRange(close, i - w + 2, i), w)

\* Series.rolling(w).mean(): NaN until w samples end at i
RollingAt(close, w, i) ==
  IF i < w THEN NaN ELSE Rat(SumRange(close, i - w + 1, i), w)

RollingMean(close, w) == [i \in 1..Len(close) |-> RollingAt(close, w, i)]

Enrich(close) ==
  [Close |-> close,
   Pct   |-> PctChange(close),
   MA20  |-> RollingMean(close, MA20Window),
   MA50  |-> RollingMean(close, MA50Window)]

EmptyFrame == Enrich(<< >>)

\* ---------------------------------------------------------- jitter step
\* mutant: uniform(-0.01, 0.01)
SimulatedClose_wide(last_close, k) == last_close + (last_close \div UnitsPerOne) * k * 10

\* last_close * (1 + u), u = k / UnitsPerOne (closes are multiples of UnitsPerOne)
SimulatedClose(last_close, k) == last_close + (last_close \div UnitsPerOne) * k

\* lines 66-69: Close[-1] is overwritten first, then % Change[-1] is computed
\* from the frame as it then is (Close[0] is read after the write)
Jitter(df, k) ==
  LET n     == Len(df.Close)
      sim   == SimulatedClose(df.Close[n], k)
      close == [df.Close EXCEPT ![n] = sim]
      pct   == [df.Pct EXCEPT ![n] = Rat((sim - close[1]) * 100, close[1])]
  IN [df EXCEPT !.Close = close, !.Pct = pct]

\* ------------------------------------------------------------- trend
Trend(df) ==
  LET n == Len(df.Close)
  IN IF RatGT(df.MA20[n], df.MA50[n]) THEN "Uptrend" ELSE "Downtrend"

\* --------------------------------------------------------- price alert
AlertFires(threshold, price) == threshold > 0 /\ price >= threshold

\* ------------------------------------------------------ sentiment_emoji
\* titles are sequences of one-character strings
UpperChars == <<"A", "B", "C", "D", "E", "F", "G", "H", "I", "J", "K", "L", "M",
                "N", "O", "P", "Q", "R", "S", "T", "U", "V", "W", "X", "Y", "Z">>
LowerChars == <<"a", "b", "c", "d", "e", "f", "g", "h", "i", "j", "k", "l", "m",
                "n", "o", "p", "q", "r", "s", "t", "u", "v", "w", "x", "y", "z">>

\* str.lower(), one character
UpperIndex == [c \in {UpperChars[i] : i \in 1..Len(UpperChars)} |->
                 CHOOSE i \in 1..Len(UpperChars) : UpperChars[i] = c]

LowerChar(c) == IF c \in DOMAIN UpperIndex THEN LowerChars[UpperIndex[c]] ELSE c

Lower(title) == [i \in 1..Len(title) |-> LowerChar(title[i])]

\* Python's `word in text` on strings
In(word, text) ==
  \E i \in 1..(Len(text) - Len(word) + 1) : SubSeq(text, i, i + Len(word) - 1) = word

KW_surge == <<"s", "u", "r", "g", "e">>
KW_rise == <<"r", "i", "s", "e">>
KW_gain == <<"g", "a", "i", "n">>
KW_beat == <<"b", "e", "a", "t">>
KW_up == <<"u", "p">>
KW_profit == <<"p", "r", "o", "f", "i", "t">>
KW_fall == <<"f", "a", "l", "l">>
KW_drop == <<"d", "r", "o", "p">>
KW_loss == <<"l", "o", "s", "s">>
KW_decline == <<"d", "e", "c", "l", "i", "n", "e">>
KW_down == <<"d", "o", "w", "n">>
KW_miss == <<"m", "i", "s", "s">>

positive_keywords == <<KW_surge, KW_rise, KW_gain, KW_beat, KW_up, KW_profit>>
negative_keywords == <<KW_fall, KW_drop, KW_loss, KW_decline, KW_down, KW_miss>>

\* any(word in text for word in words)
AnyIn(words, text) == \E j \in 1..Len(words) : In(words[j], text)

\* mutant: the negative keywords are tried first
sentiment_emoji_negative_first(title) ==
  LET title_lower == Lower(title)
  IN IF AnyIn(negative_keywords, title_lower) THEN "Negative"
     ELSE IF AnyIn(positive_keywords, title_lower) THEN "Positive"
     ELSE "Neutral"

\* "Positive" is the green circle, "Negative" the red one, "Neutral" the white one
sentiment_emoji(title) ==
  LET title_lower == Lower(title)
  IN IF AnyIn(positive_keywords, title_lower) THEN "Positive"
     ELSE IF AnyIn(negative_keywords, title_lower) THEN "Negative"
     ELSE "Neutral"

\* ------------------------------------------------- provider responses
\* lengths of the bar series the provider may return
BarCounts ==
  {0, 1, 2, MA20Window - 1, MA20Window, MA20Window + 1,
   MA50Window - 1, MA50Window, MaxBars}
Slopes == {-1, 0, 1}
LastSteps == {0, 1}

\* closes BasePrice, BasePrice + slope, ..., with an extra step on the last bar
Bars(n, slope, last) ==
  [i \in 1..n |->
     (BasePrice + slope * (i - 1) + (IF i = n THEN last ELSE 0)) * UnitsPerOne]

\* values the sidebar's number_input may hold (it has no minimum)
Thresholds == {-1 * UnitsPerOne, 0, (BasePrice + MA20Window) * UnitsPerOne}

\* draws of np.random.uniform(-0.001, 0.001), as k / UnitsPerOne
Draws == {-JitterMax, 0, JitterMax - 3}

T_up == <<"U", "P">>
T_downup == <<"d", "o", "w", "n", " ", "u", "p">>
T_miss == <<"M", "i", "s", "s">>
T_ceo == <<"C", "E", "O">>

\* records of the news provider; 'title' / 'link' may be missing keys
ArticlePool ==
  << [hasTitle |-> TRUE,  title |-> T_up,     hasLink |-> TRUE,  link |-> 1],
     [hasTitle |-> TRUE,  title |-> T_ceo,    hasLink |-> FALSE, link |-> 0],
     [hasTitle |-> TRUE,  title |-> T_miss,   hasLink |-> TRUE,  link |-> 3],
     [hasTitle |-> FALSE, title |-> << >>,    hasLink |-> TRUE,  link |-> 4],
     [hasTitle |-> TRUE,  title |-> << >>,    hasLink |-> TRUE,  link |-> 5],
     [hasTitle |-> TRUE,  title |-> T_downup, hasLink |-> TRUE,  link |-> 6],
     [hasTitle |-> TRUE,  title |-> T_ceo,    hasLink |-> TRUE,  link |-> 7] >>

NewsList(n, off) ==
  [i \in 1..n |-> ArticlePool[((i - 1 + off) % Len(ArticlePool)) + 1]]

NewsOffsets == {0, 3}

\* ---------------------------------------------------------------- state
VARIABLES
  pc,            \* where the script run is
  target_price,  \* sidebar: "Set Price Alert"
  calls,         \* this run's provider calls: "pending", "ok" or "fail"
  fetched,       \* closes as the provider returned them
  data,          \* the DataFrame: Close, % Change, MA20, MA50
  draw,          \* this run's np.random.uniform draw (k)
  trend,         \* line 78
  news_data_raw, \* line 82
  news_data,     \* lines 83-87
  rendered,      \* elements on the page
  tickerItems,   \* entries of the marquee
  tabItems,      \* entries of the news tab
  title,         \* argument of a direct call of sentiment_emoji
  label          \* its result

vars == <<pc, target_price, calls, fetched, data, draw, trend, news_data_raw,
          news_data, rendered, tickerItems, tabItems, title, label>>

CallSites == {"download", "info_high", "info_low", "news", "info_fund"}

run_vars == <<calls, fetched, data, draw, trend, news_data_raw, news_data,
              rendered, tickerItems, tabItems>>

\* a script run starts with no variable bound and an empty page
FreshRun ==
  /\ calls = [c \in CallSites |-> "pending"]
  /\ fetched = << >>
  /\ data = EmptyFrame
  /\ draw = 0
  /\ trend = ""
  /\ news_data_raw = << >>
  /\ news_data = << >>
  /\ rendered = {}
  /\ tickerItems = << >>
  /\ tabItems = << >>

TickInit ==
  /\ pc = "start"
  /\ target_price \in Thresholds
  /\ FreshRun

Init == TickInit /\ title = << >> /\ label = ""

\* lines 170-171: except Exception -> st.error; the run ends
Except == rendered' = rendered \cup {"error"} /\ pc' = "done"

\* line 61, fetch_data (38-45)
FetchData ==
  /\ pc = "start"
  /\ \/ /\ calls' = [calls EXCEPT !["download"] = "fail"]
        /\ Except
        /\ UNCHANGED <<fetched, data>>
     \/ \E n \in BarCounts, slope \in Slopes, last \in LastSteps :
          /\ calls' = [calls EXCEPT !["download"] = "ok"]
          /\ fetched' = Bars(n, slope, last)
          /\ data' = Enrich(fetched')
          /\ pc' = "check"
          /\ UNCHANGED rendered
  /\ UNCHANGED <<target_price, draw, trend, news_data_raw, news_data,
                 tickerItems, tabItems, title, label>>

\* mutant: no data.empty branch; iloc[-1] of the empty frame raises
NoData_raises ==
  /\ pc = "check"
  /\ Len(data.Close) = 0
  /\ Except
  /\ UNCHANGED <<target_price, calls, fetched, data, draw, trend, news_data_raw,
                 news_data, tickerItems, tabItems, title, label>>

\* lines 62-63
NoData ==
  /\ pc = "check"
  /\ Len(data.Close) = 0
  /\ rendered' = rendered \cup {"warning"}
  /\ pc' = "done"
  /\ UNCHANGED <<target_price, calls, fetched, data, draw, trend, news_data_raw,
                 news_data, tickerItems, tabItems, title, label>>

\* lines 65-74: jitter, then the price, change and volume metrics
SimulateAndMetrics ==
  /\ pc = "check"
  /\ Len(data.Close) > 0
  /\ \E k \in Draws :
       /\ draw' = k
       /\ data' = Jitter(data, k)
  /\ rendered' = rendered \cup {"price", "change", "volume"}
  /\ pc' = "high"
  /\ UNCHANGED <<target_price, calls, fetched, trend, news_data_raw, news_data,
                 tickerItems, tabItems, title, label>>

\* line 75
HighMetric ==
  /\ pc = "high"
  /\ \/ /\ calls' = [calls EXCEPT !["info_high"] = "fail"]
        /\ Except
     \/ /\ calls' = [calls EXCEPT !["info_high"] = "ok"]
        /\ rendered' = rendered \cup {"high"}
        /\ pc' = "low"
  /\ UNCHANGED <<target_price, fetched, data, draw, trend, news_data_raw,
                 news_data, tickerItems, tabItems, title, label>>

\* lines 76-79
LowMetricAndTrend ==
  /\ pc = "low"
  /\ \/ /\ calls' = [calls EXCEPT !["info_low"] = "fail"]
        /\ Except
        /\ UNCHANGED trend
     \/ /\ calls' = [calls EXCEPT !["info_low"] = "ok"]
        /\ trend' = Trend(data)
        /\ rendered' = rendered \cup {"low", "trend"}
        /\ pc' = "news"
  /\ UNCHANGED <<target_price, fetched, data, draw, news_data_raw, news_data,
                 tickerItems, tabItems, title, label>>

\* lines 83-87
FilterNews(raw) == SelectSeq(raw, LAMBDA a : a.hasTitle /\ a.hasLink)

\* line 91
TickerLine(news) ==
  [i \in 1..Min(TickerItems, Len(news)) |->
     [emoji |-> sentiment_emoji(news[i].title), title |-> news[i].title]]

\* lines 82-99; a provider answer of None or [] is the empty list (line 84)
NewsTicker ==
  /\ pc = "news"
  /\ \/ /\ calls' = [calls EXCEPT !["news"] = "fail"]
        /\ Except
        /\ UNCHANGED <<news_data_raw, news_data, tickerItems>>
     \/ \E n \in 0..MaxNews, off \in NewsOffsets :
          /\ calls' = [calls EXCEPT !["news"] = "ok"]
          /\ news_data_raw' = NewsList(n, off)
          /\ news_data' = FilterNews(news_data_raw')
          /\ IF Len(news_data') > 0
             THEN /\ tickerItems' = TickerLine(news_data')
                  /\ rendered' = rendered \cup {"ticker"}
             ELSE /\ tickerItems' = << >>
                  /\ rendered' = rendered \cup {"ticker_none"}
          /\ pc' = "pricing"
  /\ UNCHANGED <<target_price, fetched, data, draw, trend, tabItems, title, label>>

\* lines 102-135
PricingTab ==
  /\ pc = "pricing"
  /\ rendered' = rendered \cup {"chart", "summary"} \cup
       (IF AlertFires(target_price, data.Close[Len(data.Close)])
        THEN {"alert"} ELSE {})
  /\ pc' = "fundamentals"
  /\ UNCHANGED <<target_price, calls, fetched, data, draw, trend, news_data_raw,
                 news_data, tickerItems, tabItems, title, label>>

\* lines 138-153
FundamentalsTab ==
  /\ pc = "fundamentals"
  /\ \/ /\ calls' = [calls EXCEPT !["info_fund"] = "fail"]
        /\ rendered' = rendered \cup {"fund_header", "error"}
        /\ pc' = "done"
     \/ /\ calls' = [calls EXCEPT !["info_fund"] = "ok"]
        /\ rendered' = rendered \cup {"fund_header", "fundamentals"}
        /\ pc' = "newstab"
  /\ UNCHANGED <<target_price, fetched, data, draw, trend, news_data_raw,
                 news_data, tickerItems, tabItems, title, label>>

\* lines 159-160
NewsRows(news) ==
  [i \in 1..Min(NewsTabItems, Len(news)) |->
     [emoji |-> sentiment_emoji(news[i].title), title |-> news[i].title,
      link |-> news[i].link]]

\* lines 156-168
NewsTab ==
  /\ pc = "newstab"
  /\ IF Len(news_data) > 0
     THEN /\ tabItems' = NewsRows(news_data)
          /\ rendered' = rendered \cup {"news_header", "news_list"}
     ELSE /\ tabItems' = << >>
          /\ rendered' = rendered \cup {"news_header", "news_none"}
  /\ pc' = "done"
  /\ UNCHANGED <<target_price, calls, fetched, data, draw, trend, news_data_raw,
                 news_data, tickerItems, title, label>>

\* mutant: the page and the frame of the previous run survive the rerun
Refresh_keeps_page ==
  /\ pc = "done"
  /\ pc' = "start"
  /\ target_price' \in Thresholds
  /\ calls' = [c \in CallSites |-> "pending"]
  /\ UNCHANGED <<fetched, data, draw, trend, news_data_raw, news_data, rendered,
                 tickerItems, tabItems, title, label>>

\* line 18, st_autorefresh: the script is run again from the top; the widgets
\* keep their values unless the user edited them
Refresh ==
  /\ pc = "done"
  /\ pc' = "start"
  /\ target_price' \in Thresholds
  /\ calls' = [c \in CallSites |-> "pending"]
  /\ fetched' = << >>
  /\ data' = EmptyFrame
  /\ draw' = 0
  /\ trend' = ""
  /\ news_data_raw' = << >>
  /\ news_data' = << >>
  /\ rendered' = {}
  /\ tickerItems' = << >>
  /\ tabItems' = << >>
  /\ UNCHANGED <<title, label>>

Next ==
  \/ FetchData
  \/ NoData
  \/ SimulateAndMetrics
  \/ HighMetric
  \/ LowMetricAndTrend
  \/ NewsTicker
  \/ PricingTab
  \/ FundamentalsTab
  \/ NewsTab
  \/ Refresh

Spec == Init /\ [][Next]_vars

\* ------------------------------------- sentiment_emoji called on its own
Tokens ==
  {KW_surge, <<"R", "i", "s", "e">>, KW_gain, <<"B", "e", "a", "t">>, <<"U", "P">>, KW_profit,
   KW_fall, <<"D", "r", "o", "p">>, KW_loss, KW_decline, <<"D", "O", "W", "N">>, KW_miss,
   <<" ">>, <<"C", "E", "O">>, <<"p", "r", "o">>, <<"f", "i", "t">>}

RECURSIVE TitlesOf(_)
TitlesOf(k) ==
  IF k = 0 THEN {<< >>}
  ELSE TitlesOf(k - 1) \cup {t \o w : t \in TitlesOf(k - 1), w \in Tokens}

T_example1 == <<"S", "t", "o", "c", "k", " ", "s", "u", "r", "g", "e", "s", " ", "o", "n", " ", "p", "r", "o", "f", "i", "t", " ", "b", "e", "a", "t">>
T_example2 == <<"S", "h", "a", "r", "e", "s", " ", "f", "a", "l", "l", " ", "o", "n", " ", "m", "i", "s", "s">>
T_example3 == <<"C", "o", "m", "p", "a", "n", "y", " ", "a", "n", "n", "o", "u", "n", "c", "e", "s", " ", "n", "e", "w", " ", "C", "E", "O">>

Titles == TitlesOf(MaxTokens) \cup {T_example1, T_example2, T_example3}

InitClassify ==
  /\ pc = "start"
  /\ target_price = 0
  /\ FreshRun
  /\ title \in Titles
  /\ label = ""

Classify ==
  /\ label = ""
  /\ label' = sentiment_emoji(title)
  /\ UNCHANGED <<pc, target_price, run_vars, title>>

NextClassify == Classify

SpecClassify == InitClassify /\ [][NextClassify]_vars

\* ================================================================ claims
NBars == Len(data.Close)
LastClose == data.Close[NBars]
AnyCallFailed == \E c \in CallSites : calls[c] = "fail"

\* the frame the run hands on to the metrics, the chart and the alert
Handed == pc \notin {"start", "check"} /\ NBars > 0

\* C1: at the end of a run in which a provider call failed, the page holds
\* the error message and nothing else
C1_FailedTickShowsOnlyError ==
  (pc = "done" /\ AnyCallFailed) => rendered = {"error"}

\* C2: when the download returns no bars the run ends with the "no data"
\* warning alone: no metric, trend, chart, alert, news or error
C2_EmptyIsWarningOnly ==
  (pc = "done" /\ calls["download"] = "ok" /\ fetched = << >>)
    => /\ rendered = {"warning"}
       /\ trend = ""
       /\ tickerItems = << >>
       /\ tabItems = << >>
       /\ \A c \in CallSites \ {"download"} : calls[c] = "pending"

C2_Witness ==
  pc = "done" /\ calls["download"] = "ok" /\ fetched = << >> /\ "warning" \in rendered

\* the page a run leaves, from that run's own inputs alone
\* the records with both keys, in provider order
RECURSIVE KeptOf(_)
KeptOf(raw) ==
  IF raw = << >> THEN << >>
  ELSE (IF Head(raw).hasTitle /\ Head(raw).hasLink THEN <<Head(raw)>> ELSE << >>)
       \o KeptOf(Tail(raw))

ExpectedPage(threshold, bars, k, cl, raw) ==
  LET n     == Len(bars)
      price == bars[n] + (bars[n] * k) \div UnitsPerOne
      kept  == KeptOf(raw)
      tail4 == IF cl["info_fund"] = "fail" THEN {"error"}
               ELSE {"fundamentals", "news_header"} \cup
                    (IF kept = << >> THEN {"news_none"} ELSE {"news_list"})
      tail3 == IF cl["news"] = "fail" THEN {"error"}
               ELSE (IF kept = << >> THEN {"ticker_none"} ELSE {"ticker"})
                    \cup {"chart", "summary", "fund_header"}
                    \cup (IF threshold > 0 /\ price >= threshold THEN {"alert"} ELSE {})
                    \cup tail4
      tail2 == IF cl["info_low"] = "fail" THEN {"error"}
               ELSE {"low", "trend"} \cup tail3
      tail1 == IF cl["info_high"] = "fail" THEN {"error"}
               ELSE {"high"} \cup tail2
  IN IF cl["download"] = "fail" THEN {"error"}
     ELSE IF n = 0 THEN {"warning"}
     ELSE {"price", "change", "volume"} \cup tail1

Outcomes ==
  {o \in {"warning", "error", "rendered"} :
     \/ o = "warning" /\ "warning" \in rendered
     \/ o = "error" /\ "error" \in rendered
     \/ o = "rendered" /\ {"news_header", "fundamentals", "chart"} \subseteq rendered}

PcRank ==
  [p \in {"start", "check", "high", "low", "news", "pricing", "fundamentals",
          "newstab", "done"} |->
     CASE p = "start" -> 0 [] p = "check" -> 1 [] p = "high" -> 2 [] p = "low" -> 3
       [] p = "news" -> 4 [] p = "pricing" -> 5 [] p = "fundamentals" -> 6
       [] p = "newstab" -> 7 [] p = "done" -> 8]

C3_Inv ==
  /\ pc = "done" => /\ Cardinality(Outcomes) = 1
                    /\ rendered = ExpectedPage(target_price, fetched, draw, calls,
                                               news_data_raw)
                    /\ ENABLED Refresh
  /\ pc /= "done" => ENABLED Next
  /\ pc = "start" => FreshRun

\* C3: every run ends in exactly one of warning / error / rendered, its page is
\* a function of that run's configuration, provider answers and draw, the next
\* run can always start and starts from scratch, and every step of a run moves
\* the run forward (so a run ends after at most eight steps)
C3_TicksIndependent ==
  /\ []C3_Inv
  /\ [][IF pc = "done" THEN pc' = "start" ELSE PcRank[pc'] > PcRank[pc]]_vars

C3_Witness ==
  /\ pc = "done"
  /\ calls["download"] = "ok" /\ calls["info_fund"] = "ok"
  /\ Outcomes = {"rendered"}

\* C4: in every run that has a current price the alert is shown iff
\* threshold > 0 and the jittered price >= threshold
C4_AlertIffCrossed ==
  (pc = "done" /\ "price" \in rendered)
    => ("alert" \in rendered <=> (target_price > 0 /\ LastClose >= target_price))

\* ---- C5
HasKeyword(words, t) ==
  \E j \in 1..Len(words) :
    \E s \in 0..(Len(t) - Len(words[j])) :
      \A i \in 1..Len(words[j]) : LowerChar(t[s + i]) = words[j][i]

\* C5: sentiment_emoji answers for every title; Positive iff the lower-cased
\* title contains a positive keyword, Negative iff it contains no positive and
\* some negative keyword, Neutral otherwise; the empty title is Neutral
C5_Classify ==
  LET pos == HasKeyword(positive_keywords, title)
      neg == HasKeyword(negative_keywords, title)
  IN /\ label = "" => ENABLED Classify
     /\ label /= "" =>
          /\ label \in {"Positive", "Negative", "Neutral"}
          /\ label = "Positive" <=> pos
          /\ label = "Negative" <=> (~pos /\ neg)
          /\ label = "Neutral" <=> (~pos /\ ~neg)
          /\ title = << >> => label = "Neutral"

C5_Witness ==
  /\ label = "Positive"
  /\ HasKeyword(positive_keywords, title)
  /\ HasKeyword(negative_keywords, title)

\* C6: the trend is Uptrend when MA20 > MA50, Downtrend when MA20 < MA50, some
\* other explicit value when either average is undefined; 60 bars rising from
\* 100 to 160 give Uptrend
C6_TrendPolicy ==
  "trend" \in rendered =>
    LET a == data.MA20[NBars]
        b == data.MA50[NBars]
    IN /\ (~IsNaN(a) /\ ~IsNaN(b) /\ a[1] * b[2] > b[1] * a[2]) => trend = "Uptrend"
       /\ (~IsNaN(a) /\ ~IsNaN(b) /\ a[1] * b[2] < b[1] * a[2]) => trend = "Downtrend"
       /\ (IsNaN(a) \/ IsNaN(b)) => trend \notin {"Uptrend", "Downtrend"}
       /\ (Len(fetched) = 60 /\ fetched[1] = 100 * UnitsPerOne
           /\ fetched[60] = 160 * UnitsPerOne
           /\ \A i \in 1..59 : fetched[i] < fetched[i + 1]) => trend = "Uptrend"

\* ---- C7
MeanOf(close, w, i) == Rat(SumRange(close, i - w + 1, i), w)

MAIsMeanOf(ma, close, w) ==
  \A i \in 1..Len(ma) :
    /\ ~IsNaN(ma[i]) <=> i >= w
    /\ i >= w => ma[i] = MeanOf(close, w, i)

\* C7 as stated: in the handed frame MA20 / MA50 are defined exactly from
\* positions 19 / 49 on and are the means of that frame's own closes
C7_MAOfHandedCloses ==
  Handed => /\ MAIsMeanOf(data.MA20, data.Close, MA20Window)
            /\ MAIsMeanOf(data.MA50, data.Close, MA50Window)

\* C7 amended: the averages are the means of the closes as fetched; the jittered
\* last close is not in them, so with a non-zero draw the last average is not
\* the mean of the handed closes
C7_MAOfFetchedCloses ==
  /\ Len(data.MA20) = Len(fetched) /\ Len(data.MA50) = Len(fetched)
  /\ MAIsMeanOf(data.MA20, fetched, MA20Window)
  /\ MAIsMeanOf(data.MA50, fetched, MA50Window)
  /\ (Handed /\ draw /= 0) =>
       /\ NBars >= MA20Window => data.MA20[NBars] /= MeanOf(data.Close, MA20Window, NBars)
       /\ NBars >= MA50Window => data.MA50[NBars] /= MeanOf(data.Close, MA50Window, NBars)

C7_Witness == Handed /\ draw /= 0 /\ NBars > MA50Window /\ fetched[1] /= fetched[2]

\* ---- C8
InteriorPctOk ==
  \A i \in 2..(NBars - 1) :
    data.Pct[i] = Rat((data.Close[i] - data.Close[i - 1]) * 100, data.Close[i - 1])

\* C8 as stated: for every handed frame of N >= 1 bars the percent change at
\* position 0 is undefined, and at 0 < i < N-1 it is the change from i-1
C8_PctAfterEnricher == Handed => (IsNaN(data.Pct[1]) /\ InteriorPctOk)

\* C8 amended: that holds for N >= 2; for N = 1 position 0 is the last position,
\* which the jitter step overwrites with the change of the jittered close from
\* itself, 0
C8_PctAfterEnricherFromTwoBars ==
  Handed => /\ NBars >= 2 => IsNaN(data.Pct[1])
            /\ InteriorPctOk
            /\ NBars = 1 => data.Pct[1] = <<0, 1>>

C8_Witness == Handed /\ NBars >= 3 /\ draw /= 0 /\ data.Pct[2] /= <<0, 1>>

\* C9: only the last close is replaced, by close * (1 + u) with u the run's
\* draw in [-0.001, 0.001], so it stays within 0.1% of the fetched close
C9_JitterBound ==
  Handed =>
    /\ Len(data.Close) = Len(fetched)
    /\ \A i \in 1..(NBars - 1) : data.Close[i] = fetched[i]
    /\ draw \in (-JitterMax)..JitterMax
    /\ (LastClose - fetched[NBars]) * UnitsPerOne = fetched[NBars] * draw
    /\ Abs(LastClose - fetched[NBars]) * 1000 <= fetched[NBars]

C9_Witness == Handed /\ NBars >= 2 /\ draw /= 0 /\ LastClose /= fetched[NBars]

\* ---- C10
\* C10: whatever list the news provider returns, the marquee shows the first
\* min(5, k) and the news tab the first min(10, k) of the k records that have
\* title and link, in provider order, the marquee a prefix of the tab; with
\* k = 0 both show their placeholder and nothing is classified
C10_NewsShown ==
  (pc = "done" /\ calls["news"] = "ok") =>
    LET kept == KeptOf(news_data_raw)
        k    == Len(kept)
    IN /\ Len(tickerItems) = Min(TickerItems, k)
       /\ Len(tabItems) = Min(NewsTabItems, k)
       /\ \A i \in 1..Len(tickerItems) : tickerItems[i].title = kept[i].title
       /\ \A i \in 1..Len(tabItems) :
            tabItems[i].title = kept[i].title /\ tabItems[i].link = kept[i].link
       /\ \A i \in 1..Len(tickerItems) :
            i <= Len(tabItems) /\ tickerItems[i].title = tabItems[i].title
       /\ k = 0 => {"ticker_none", "news_none"} \subseteq rendered

====
